---------------------------- MODULE Spec2Model ----------------------------
(***************************************************************************)
(* Model of sosw-dynamodb: the codec between DynamoDB's tagged wire        *)
(* records and native dictionaries (converters.py), the boolean helper     *)
(* (helpers.py) and the table registry (shared.py, table.py).              *)
(*                                                                         *)
(* Python values are records [t, v]: t names the runtime type, v holds the *)
(* value.  Strings (field names included) are sequences of one-character   *)
(* strings, so that str(), int(), prefixing and slicing are computed.      *)
(* A dict is a function from keys to values.  A wire attribute             *)
(* ({'N': '3'}) is a set of <<tag, payload>> pairs with at most one        *)
(* element; {} is the empty attribute.                                     *)
(***************************************************************************)
EXTENDS Integers, Sequences, FiniteSets, TLC

VARIABLES registered_tables, op, args, result

vars == <<registered_tables, op, args, result>>

-----------------------------------------------------------------------------
(* Bounds of the explored inputs *)

MaxStrLen == 2
MaxInt == 1

-----------------------------------------------------------------------------
(* Python values *)

NoneV == [t |-> "none", v |-> 0]
PyBool(b) == [t |-> "bool", v |-> b]
PyInt(n) == [t |-> "int", v |-> n]
PyFloat(ip, fp) == [t |-> "float", v |-> <<ip, fp>>]
PyDecimal(s) == [t |-> "decimal", v |-> s]
PyStr(s) == [t |-> "str", v |-> s]
PyDict(d) == [t |-> "dict", v |-> d]
PyList(l) == [t |-> "list", v |-> l]

EmptyDict == <<>>

(* Outcome of a call: a returned value, or a raised exception *)
Ok(x) == [ok |-> TRUE, val |-> x]
Raised(e) == [ok |-> FALSE, val |-> e]

-----------------------------------------------------------------------------
(* Strings *)

Digits == <<"0", "1", "2", "3", "4", "5", "6", "7", "8", "9">>

DigitChars == {Digits[i] : i \in 1..10}

DigitVal(c) == (CHOOSE i \in 1..10 : Digits[i] = c) - 1

RECURSIVE NatToStr(_)
NatToStr(n) ==
    IF n < 10 THEN <<Digits[n + 1]>>
    ELSE NatToStr(n \div 10) \o <<Digits[(n % 10) + 1]>>

(* str(n) for an int *)
IntToStr(n) == IF n < 0 THEN <<"-">> \o NatToStr(0 - n) ELSE NatToStr(n)

RECURSIVE DigitsToNat(_)
DigitsToNat(s) ==
    IF Len(s) = 0 THEN 0
    ELSE DigitsToNat(SubSeq(s, 1, Len(s) - 1)) * 10 + DigitVal(s[Len(s)])

AllDigits(s) == \A i \in 1..Len(s) : s[i] \in DigitChars

(* str.isnumeric(): non-empty and every character numeric *)
IsNumeric(s) == Len(s) > 0 /\ AllDigits(s)

StartsWith(s, c) == Len(s) > 0 /\ s[1] = c
EndsWith(s, c) == Len(s) > 0 /\ s[Len(s)] = c
Contains(s, c) == \E i \in 1..Len(s) : s[i] = c
IndexOf(s, c) == CHOOSE i \in 1..Len(s) : s[i] = c /\ \A j \in 1..(i - 1) : s[j] # c

(* str.lower() on the letters the model uses *)
LowerChar(c) ==
    CASE c = "T" -> "t"
      [] c = "F" -> "f"
      [] c = "A" -> "a"
      [] OTHER -> c

Lower(s) == [i \in 1..Len(s) |-> LowerChar(s[i])]

(* int(s): an optional sign and at least one digit, else ValueError *)
ParseInt(s) ==
    LET body == IF StartsWith(s, "-") THEN SubSeq(s, 2, Len(s)) ELSE s
    IN  IF IsNumeric(body)
        THEN Ok(PyInt(IF StartsWith(s, "-") THEN 0 - DigitsToNat(body) ELSE DigitsToNat(body)))
        ELSE Raised("ValueError")

RECURSIVE StripZeros(_)
StripZeros(s) ==
    IF EndsWith(s, "0") THEN StripZeros(SubSeq(s, 1, Len(s) - 1)) ELSE s

(* float(s) for a string with a '.': non-negative decimals, kept as the   *)
(* integer part and the fraction digits without trailing zeros            *)
ParseFloat(s) ==
    LET dot == IndexOf(s, ".")
        ip == SubSeq(s, 1, dot - 1)
        fp == SubSeq(s, dot + 1, Len(s))
    IN  IF AllDigits(ip) /\ AllDigits(fp) /\ Len(ip) + Len(fp) > 0
        THEN Ok(PyFloat(DigitsToNat(ip), StripZeros(fp)))
        ELSE Raised("ValueError")

(* str(x) for a float *)
FloatToStr(f) ==
    NatToStr(f[1]) \o <<".">> \o (IF Len(f[2]) = 0 THEN <<"0">> ELSE f[2])

-----------------------------------------------------------------------------
(* Dictionaries as functions *)

(* d.get(k): the value, or None *)
Get(d, k) == IF k \in DOMAIN d THEN d[k] ELSE NoneV

(* d with d[k] = x assigned *)
Put(d, k, x) == [j \in (DOMAIN d) \cup {k} |-> IF j = k THEN x ELSE d[j]]

(* A wire attribute: at most one <<tag, payload>> pair *)
Attr(tag, payload) == {<<tag, payload>>}
EmptyAttr == {}
AttrTag(a) == (CHOOSE p \in a : TRUE)[1]
AttrPayload(a) == (CHOOSE p \in a : TRUE)[2]
HasTag(a, tag) == \E p \in a : p[1] = tag

-----------------------------------------------------------------------------
(* str() and repr() of a value *)

RECURSIVE Repr(_)
RECURSIVE ReprItems(_, _)

(* the items of a dict display, "k: v" joined by ", " *)
ReprItems(d, ks) ==
    IF ks = {} THEN <<>>
    ELSE LET k == CHOOSE x \in ks : TRUE
             rest == ks \ {k}
             item == <<"'">> \o k \o <<"'", ":", " ">> \o Repr(d[k])
         IN  IF rest = {} THEN item
             ELSE item \o <<",", " ">> \o ReprItems(d, rest)

RECURSIVE ReprList(_)
ReprList(l) ==
    IF Len(l) = 0 THEN <<>>
    ELSE IF Len(l) = 1 THEN Repr(l[1])
    ELSE Repr(l[1]) \o <<",", " ">> \o ReprList(Tail(l))

Repr(x) ==
    CASE x.t = "none" -> <<"N", "o", "n", "e">>
      [] x.t = "bool" -> IF x.v THEN <<"T", "r", "u", "e">> ELSE <<"F", "a", "l", "s", "e">>
      [] x.t = "int" -> IntToStr(x.v)
      [] x.t = "float" -> FloatToStr(x.v)
      [] x.t = "decimal" -> <<"D", "e", "c", "i", "m", "a", "l", "(", "'">> \o x.v \o <<"'", ")">>
      [] x.t = "str" -> <<"'">> \o x.v \o <<"'">>
      [] x.t = "dict" -> <<"{">> \o ReprItems(x.v, DOMAIN x.v) \o <<"}">>
      [] x.t = "list" -> <<"[">> \o ReprList(x.v) \o <<"]">>

Str(x) ==
    CASE x.t = "str" -> x.v
      [] x.t = "decimal" -> x.v
      [] OTHER -> Repr(x)

-----------------------------------------------------------------------------
(* helpers.to_bool *)

to_bool(val) ==
    IF val.t = "bool" THEN Ok(val.v)
    ELSE IF val.t = "int" THEN Ok(val.v # 0)
    ELSE IF val.t = "float" THEN Ok(val.v # <<0, <<>>>>)
    ELSE IF val.t = "str"
    THEN IF Lower(val.v) \in {<<"t", "r", "u", "e">>, <<"1">>} THEN Ok(TRUE)
         ELSE IF Lower(val.v) \in {<<"f", "a", "l", "s", "e">>, <<"0">>} THEN Ok(FALSE)
         ELSE Raised("Exception")
    ELSE Raised("Exception")

-----------------------------------------------------------------------------
(* boto3 TypeSerializer / TypeDeserializer, the fallback of the codec *)

RECURSIVE TypeSerialize(_)
TypeSerialize(val) ==
    CASE val.t = "none" -> Ok(Attr("NULL", TRUE))
      [] val.t = "bool" -> Ok(Attr("BOOL", val.v))
      [] val.t = "int" -> Ok(Attr("N", IntToStr(val.v)))
      [] val.t = "decimal" -> Ok(Attr("N", val.v))
      [] val.t = "float" -> Raised("TypeError")
      [] val.t = "str" -> Ok(Attr("S", val.v))
      [] val.t = "dict" ->
           LET each == [k \in DOMAIN val.v |-> TypeSerialize(val.v[k])]
           IN  IF \A k \in DOMAIN each : each[k].ok
               THEN Ok(Attr("M", [k \in DOMAIN each |-> each[k].val]))
               ELSE Raised("TypeError")
      [] val.t = "list" ->
           LET each == [i \in 1..Len(val.v) |-> TypeSerialize(val.v[i])]
           IN  IF \A i \in 1..Len(val.v) : each[i].ok
               THEN Ok(Attr("L", [i \in 1..Len(val.v) |-> each[i].val]))
               ELSE Raised("TypeError")

RECURSIVE TypeDeserialize(_)
TypeDeserialize(attr) ==
    IF attr = EmptyAttr THEN Raised("TypeError")
    ELSE LET tag == AttrTag(attr)
             val == AttrPayload(attr)
         IN  CASE tag = "NULL" -> Ok(NoneV)
               [] tag = "BOOL" -> Ok(PyBool(val))
               [] tag = "N" -> Ok(PyDecimal(val))
               [] tag = "S" -> Ok(PyStr(val))
               [] tag = "M" ->
                    LET each == [k \in DOMAIN val |-> TypeDeserialize(val[k])]
                    IN  IF \A k \in DOMAIN each : each[k].ok
                        THEN Ok(PyDict([k \in DOMAIN each |-> each[k].val]))
                        ELSE Raised("TypeError")
               [] tag = "L" ->
                    LET each == [i \in 1..Len(val) |-> TypeDeserialize(val[i])]
                    IN  IF \A i \in 1..Len(val) : each[i].ok
                        THEN Ok(PyList([i \in 1..Len(val) |-> each[i].val]))
                        ELSE Raised("TypeError")
               [] OTHER -> Raised("TypeError")

-----------------------------------------------------------------------------
(* json.loads on a string that starts with '{' and ends with '}'.  The     *)
(* grammar covered: an object whose members, separated by ',', are         *)
(* "key":integer or "key":"string", without white space.  Every other      *)
(* string of the explored inputs is rejected by json.loads as well.        *)

Quote == "\""

IsJsonInt(s) ==
    LET body == IF StartsWith(s, "-") THEN SubSeq(s, 2, Len(s)) ELSE s
    IN  IsNumeric(body) /\ (Len(body) = 1 \/ body[1] # "0")

IsJsonString(s) ==
    /\ Len(s) >= 2
    /\ s[1] = Quote
    /\ s[Len(s)] = Quote
    /\ \A i \in 2..(Len(s) - 1) : s[i] \notin {Quote, "\\"}

(* one member "key":value, as <<key, value>> *)
JsonMember(m) ==
    IF ~(Len(m) >= 2 /\ m[1] = Quote /\ Contains(Tail(m), Quote)) THEN Raised("ValueError")
    ELSE LET q == IndexOf(Tail(m), Quote) + 1
             key == SubSeq(m, 2, q - 1)
             rest == SubSeq(m, q + 2, Len(m))
         IN  IF Contains(key, "\\") \/ Len(m) < q + 2 \/ m[q + 1] # ":" THEN Raised("ValueError")
             ELSE IF IsJsonInt(rest) THEN Ok(<<key, ParseInt(rest).val>>)
             ELSE IF IsJsonString(rest) THEN Ok(<<key, PyStr(SubSeq(rest, 2, Len(rest) - 1))>>)
             ELSE Raised("ValueError")

RECURSIVE JsonMembers(_, _)
(* the members of s, folded left to right into d: a repeated key keeps the last *)
JsonMembers(s, d) ==
    LET first == IF Contains(s, ",") THEN SubSeq(s, 1, IndexOf(s, ",") - 1) ELSE s
        m == JsonMember(first)
    IN  IF ~m.ok THEN Raised("ValueError")
        ELSE IF Contains(s, ",")
        THEN JsonMembers(SubSeq(s, IndexOf(s, ",") + 1, Len(s)), Put(d, m.val[1], m.val[2]))
        ELSE Ok(PyDict(Put(d, m.val[1], m.val[2])))

JsonLoads(s) ==
    IF ~(StartsWith(s, "{") /\ EndsWith(s, "}") /\ Len(s) >= 2) THEN Raised("ValueError")
    ELSE IF Len(s) = 2 THEN Ok(PyDict(EmptyDict))
    ELSE JsonMembers(SubSeq(s, 2, Len(s) - 1), EmptyDict)

-----------------------------------------------------------------------------
(* converters.dict_to_dynamo *)

(* A failing call.  Which of several exceptions reaches the caller depends *)
(* on the iteration order of the dicts, which the model does not keep.     *)
CallFailed == Raised("Exception")

(* The recursive call dict_to_dynamo(val): row_mapper, a required          *)
(* positional parameter, is not passed, so Python raises TypeError while   *)
(* binding the arguments, whatever val is.                                 *)
DictToDynamoNested(val) == Raised("TypeError")

(* isinstance(val, cls): bool is a subclass of int *)
IsInstance(val, cls) == val.t = cls \/ (cls = "int" /\ val.t = "bool")

(* The schema pass: the attribute of a non-None value under its declared tag *)
EncodeDeclared(key_type, val) ==
    IF key_type = "BOOL"
    THEN LET b == to_bool(val) IN IF b.ok THEN Ok(Attr("BOOL", b.val)) ELSE b
    ELSE IF key_type = "N" THEN Ok(Attr("N", Str(val)))
    ELSE IF key_type = "S" THEN Ok(Attr("S", Str(val)))
    ELSE IF key_type = "M"
    THEN LET m == DictToDynamoNested(val) IN IF m.ok THEN Ok(Attr("M", m.val)) ELSE m
    ELSE TypeSerialize(val)

(* Faulty variant: the numeric test placed before the boolean test *)
EncodeInferredNumericFirst(val) ==
    IF IsInstance(val, "int") \/ IsInstance(val, "float")
            \/ (IsInstance(val, "str") /\ IsNumeric(val.v))
    THEN Ok(Attr("N", Str(val)))
    ELSE IF IsInstance(val, "bool")
    THEN LET b == to_bool(val) IN IF b.ok THEN Ok(Attr("BOOL", b.val)) ELSE b
    ELSE IF IsInstance(val, "str") THEN Ok(Attr("S", Str(val)))
    ELSE IF IsInstance(val, "dict")
    THEN LET m == DictToDynamoNested(val) IN IF m.ok THEN Ok(Attr("M", m.val)) ELSE m
    ELSE TypeSerialize(val)

(* The unmapped pass: the attribute of a value by its runtime type *)
EncodeInferred(val) ==
    IF IsInstance(val, "bool")
    THEN LET b == to_bool(val) IN IF b.ok THEN Ok(Attr("BOOL", b.val)) ELSE b
    ELSE IF IsInstance(val, "int") \/ IsInstance(val, "float")
            \/ (IsInstance(val, "str") /\ IsNumeric(val.v))
    THEN Ok(Attr("N", Str(val)))
    ELSE IF IsInstance(val, "str") THEN Ok(Attr("S", Str(val)))
    ELSE IF IsInstance(val, "dict")
    THEN LET m == DictToDynamoNested(val) IN IF m.ok THEN Ok(Attr("M", m.val)) ELSE m
    ELSE TypeSerialize(val)

(* add_prefix after "if add_prefix is None: add_prefix = ''" *)
PrefixOf(add_prefix) == IF add_prefix.t = "none" THEN <<>> ELSE add_prefix.v

(* The fields the schema pass emits: declared, and not None in row_dict *)
SchemaFields(row_dict, row_mapper) ==
    {key \in DOMAIN row_mapper : Get(row_dict, key) # NoneV}

(* The outcome of the schema pass for each field it emits *)
SchemaPass(row_dict, row_mapper) ==
    [key \in SchemaFields(row_dict, row_mapper) |->
        EncodeDeclared(row_mapper[key], row_dict[key])]

(* x[len(add_prefix):] *)
StripPrefix(x, prefix) == SubSeq(x, Len(prefix) + 1, Len(x))

(* Faulty variant: result_keys compared with their prefix left on *)
ResultKeysUnstripped(emitted, prefix) == emitted

(* result_keys: the keys of the schema pass's result, the prefix cut off *)
ResultKeys(emitted, prefix) ==
    IF Len(prefix) > 0 THEN {StripPrefix(x, prefix) : x \in emitted} ELSE emitted

(* The fields the unmapped pass handles *)
UnmappedFields(row_dict, row_mapper, prefix) ==
    (DOMAIN row_dict) \
        ResultKeys({prefix \o key : key \in SchemaFields(row_dict, row_mapper)}, prefix)

(* The outcome of the unmapped pass for each field it handles *)
UnmappedPass(row_dict, row_mapper, prefix) ==
    [key \in UnmappedFields(row_dict, row_mapper, prefix) |-> EncodeInferred(row_dict[key])]

DictToDynamo(row_dict, row_mapper, add_prefix) ==
    LET prefix == PrefixOf(add_prefix)
        first == SchemaPass(row_dict, row_mapper)
        second == UnmappedPass(row_dict, row_mapper, prefix)
        keys1 == {prefix \o key : key \in DOMAIN first}
        keys2 == {prefix \o key : key \in DOMAIN second}
    IN  IF (\E key \in DOMAIN first : ~first[key].ok) \/ (\E key \in DOMAIN second : ~second[key].ok)
        THEN CallFailed
        ELSE Ok([k \in keys1 \cup keys2 |->
                    IF k \in keys2 THEN second[StripPrefix(k, prefix)].val
                    ELSE first[StripPrefix(k, prefix)].val])

-----------------------------------------------------------------------------
(* converters.dynamo_to_dict *)

(* float(val) if '.' in val else int(val) *)
DecodeNumber(val) == IF Contains(val, ".") THEN ParseFloat(val) ELSE ParseInt(val)

(* Faulty variant: a failed parse is not caught *)
DecodeStringUncaught(val, dont_json_loads_results) ==
    IF StartsWith(val, "{") /\ EndsWith(val, "}") /\ ~dont_json_loads_results
    THEN JsonLoads(val)
    ELSE Ok(PyStr(val))

(* The S branch: parse a JSON-looking string unless told not to; keep the  *)
(* raw string when parsing fails                                           *)
DecodeString(val, dont_json_loads_results) ==
    IF StartsWith(val, "{") /\ EndsWith(val, "}") /\ ~dont_json_loads_results
    THEN LET parsed == JsonLoads(val) IN IF parsed.ok THEN parsed ELSE Ok(PyStr(val))
    ELSE Ok(PyStr(val))

RECURSIVE DynamoToDict(_, _, _, _)

(* A nested record: the recursive call passes fetch_all_fields=True and    *)
(* leaves dont_json_loads_results at its default, None                     *)
DecodeNested(val, row_mapper) ==
    LET nested == DynamoToDict(val, row_mapper, TRUE, FALSE)
    IN  IF nested.ok THEN Ok(PyDict(nested.val)) ELSE nested

(* All-fields mode: the tag and payload are those of the wire attribute *)
DecodeWire(val_dict, row_mapper, dont_json_loads_results) ==
    LET val_type == AttrTag(val_dict)
        val == AttrPayload(val_dict)
    IN  IF val_type = "N" THEN DecodeNumber(val)
        ELSE IF val_type = "M" THEN DecodeNested(val, row_mapper)
        ELSE IF val_type = "S" THEN DecodeString(val, dont_json_loads_results)
        ELSE TypeDeserialize(val_dict)

(* Faulty variant: schema mode dispatches on the tag of the wire attribute *)
DecodeDeclaredByWireTag(key_type, val_dict, row_mapper, dont_json_loads_results) ==
    DecodeWire(val_dict, row_mapper, dont_json_loads_results)

(* Schema mode: val = val_dict.get(key_type), None when val_dict carries   *)
(* another tag; N, M and S then fail on None                               *)
DecodeDeclared(key_type, val_dict, row_mapper, dont_json_loads_results) ==
    IF key_type \in {"N", "M", "S"}
    THEN IF ~HasTag(val_dict, key_type)
         THEN Raised(IF key_type = "N" THEN "TypeError" ELSE "AttributeError")
         ELSE IF key_type = "N" THEN DecodeNumber(AttrPayload(val_dict))
         ELSE IF key_type = "M" THEN DecodeNested(AttrPayload(val_dict), row_mapper)
         ELSE DecodeString(AttrPayload(val_dict), dont_json_loads_results)
    ELSE TypeDeserialize(val_dict)

(* Faulty variant: all-fields mode keeps only the fields the schema declares *)
DecodedFieldsDeclaredOnly(dynamo_row, row_mapper, fetch_all_fields) ==
    {key \in DOMAIN row_mapper : key \in DOMAIN dynamo_row /\ dynamo_row[key] # EmptyAttr}

(* Faulty variant: schema mode tests the payload, not the attribute, for truth *)
DecodedFieldsTruthyPayload(dynamo_row, row_mapper, fetch_all_fields) ==
    IF ~fetch_all_fields
    THEN {key \in DOMAIN row_mapper :
            /\ key \in DOMAIN dynamo_row
            /\ dynamo_row[key] # EmptyAttr
            /\ ~(HasTag(dynamo_row[key], "S") /\ AttrPayload(dynamo_row[key]) = <<>>)
            /\ ~(HasTag(dynamo_row[key], "BOOL") /\ AttrPayload(dynamo_row[key]) = FALSE)}
    ELSE {key \in DOMAIN dynamo_row : dynamo_row[key] # EmptyAttr}

(* The fields each mode puts in the result *)
DecodedFields(dynamo_row, row_mapper, fetch_all_fields) ==
    IF ~fetch_all_fields
    THEN {key \in DOMAIN row_mapper : key \in DOMAIN dynamo_row /\ dynamo_row[key] # EmptyAttr}
    ELSE {key \in DOMAIN dynamo_row : dynamo_row[key] # EmptyAttr}

DynamoToDict(dynamo_row, row_mapper, fetch_all_fields, dont_json_loads_results) ==
    LET each == [key \in DecodedFields(dynamo_row, row_mapper, fetch_all_fields) |->
                    IF ~fetch_all_fields
                    THEN DecodeDeclared(row_mapper[key], dynamo_row[key], row_mapper,
                                        dont_json_loads_results)
                    ELSE DecodeWire(dynamo_row[key], row_mapper, dont_json_loads_results)]
    IN  IF \E key \in DOMAIN each : ~each[key].ok
        THEN CallFailed
        ELSE Ok([key \in DOMAIN each |-> each[key].val])

-----------------------------------------------------------------------------
(* shared.registered_tables, shared.get_row_mapper, table.DynamoTable *)

(* A DynamoTable instance *)
TableObject(name, row_mapper) ==
    [t |-> "DynamoTable", v |-> [name |-> name, row_mapper |-> row_mapper]]

(* registered_tables after DynamoTable(name, row_mapper) *)
Register(tables, name, row_mapper) ==
    [n \in (DOMAIN tables) \cup {name} |->
        IF n = name THEN TableObject(name, row_mapper) ELSE tables[n]]

get_row_mapper(tables, table_name) ==
    IF table_name \notin DOMAIN tables
    THEN Raised("TableNotRegisteredException")
    ELSE Ok(tables[table_name])

-----------------------------------------------------------------------------
(* The explored inputs *)

FieldF == <<"f">>
FieldG == <<"g">>
PrefixP == <<"p">>
FieldPF == PrefixP \o FieldF

Tags == {"S", "N", "BOOL", "M", "L"}

(* Every function from a subset of ks to vs *)
PartialMaps(ks, vs) == UNION {[d -> vs] : d \in SUBSET ks}

(* Schemas declare any of f, g with any tag *)
RowMappers == PartialMaps({FieldF, FieldG}, Tags)

Alphabet == {"1", "a"}

PlainStrings == UNION {[1..n -> Alphabet] : n \in 0..MaxStrLen}

JsonEmpty == <<"{", "}">>
JsonObject == <<"{", Quote, "a", Quote, ":", "1", "}">>
JsonBroken == <<"{", "a", "}">>

Strings == PlainStrings \cup {JsonEmpty, JsonObject, JsonBroken, <<"{">>, <<"T", "r", "u", "e">>}

Ints == (0 - 1)..MaxInt

NestedDicts == {EmptyDict} \cup {FieldG :> PyInt(n) : n \in 0..MaxInt}

NativeValues ==
    {NoneV, PyBool(TRUE), PyBool(FALSE), PyFloat(1, <<"5">>), PyList(<<>>)}
        \cup {PyInt(n) : n \in Ints}
        \cup {PyStr(s) : s \in Strings}
        \cup {PyDict(d) : d \in NestedDicts}

(* Native records: f and g, or f beside a field named prefix+f *)
RowDicts ==
    PartialMaps({FieldF, FieldG}, NativeValues)
        \cup [{FieldF, FieldPF} -> NativeValues]

Prefixes == {NoneV, PyStr(PrefixP)}

WireNumbers == {IntToStr(n) : n \in Ints} \cup {<<"1", ".", "5">>}

NestedAttrs ==
    {EmptyAttr, Attr("N", <<"1">>), Attr("BOOL", TRUE), Attr("S", <<"a">>),
     Attr("S", JsonEmpty), Attr("S", JsonBroken)}

NestedRows == {EmptyDict} \cup {FieldG :> a : a \in NestedAttrs}

WireAttrs ==
    {EmptyAttr, Attr("BOOL", TRUE), Attr("BOOL", FALSE), Attr("NULL", TRUE), Attr("L", <<>>)}
        \cup {Attr("S", s) : s \in Strings}
        \cup {Attr("N", n) : n \in WireNumbers}
        \cup {Attr("M", r) : r \in NestedRows}

DynamoRows == PartialMaps({FieldF, FieldG}, WireAttrs)

TableNames == {"tasks", "users", "events"}

(* row_mapper arguments of DynamoTable: the default None, or a mapping *)
TableMappers ==
    {NoneV, PyDict(FieldF :> "N"), PyDict((FieldF :> "S") @@ (FieldG :> "M"))}

-----------------------------------------------------------------------------
(* The state machine: the registry, and the last call with its outcome.    *)
(* A codec call starts from the idle state (op = "init") and its outcome   *)
(* stays in the state until the caller takes it.                           *)

Init ==
    /\ registered_tables = <<>>
    /\ op = "init"
    /\ args = <<>>
    /\ result = Ok(NoneV)

(* DynamoTable(name, row_mapper) *)
DynamoTableInit(name, row_mapper) ==
    /\ registered_tables' = Register(registered_tables, name, row_mapper)
    /\ op' = "DynamoTable"
    /\ args' = [name |-> name, row_mapper |-> row_mapper]
    /\ result' = Ok(TableObject(name, row_mapper))

(* get_row_mapper(table_name) *)
GetRowMapperCall(table_name) ==
    /\ op' = "get_row_mapper"
    /\ args' = [table_name |-> table_name]
    /\ result' = get_row_mapper(registered_tables, table_name)
    /\ UNCHANGED registered_tables

(* dict_to_dynamo(row_dict, row_mapper, add_prefix) *)
DictToDynamoCall(row_dict, row_mapper, add_prefix) ==
    /\ op = "init"
    /\ op' = "dict_to_dynamo"
    /\ args' = [row_dict |-> row_dict, row_mapper |-> row_mapper, add_prefix |-> add_prefix]
    /\ result' = DictToDynamo(row_dict, row_mapper, add_prefix)
    /\ UNCHANGED registered_tables

(* dynamo_to_dict(dynamo_row, row_mapper, fetch_all_fields, dont_json_loads_results); *)
(* the flags' default None counts as FALSE                                           *)
DynamoToDictCall(dynamo_row, row_mapper, fetch_all_fields, dont_json_loads_results) ==
    /\ op = "init"
    /\ op' = "dynamo_to_dict"
    /\ args' = [dynamo_row |-> dynamo_row, row_mapper |-> row_mapper,
                fetch_all_fields |-> fetch_all_fields,
                dont_json_loads_results |-> dont_json_loads_results]
    /\ result' = DynamoToDict(dynamo_row, row_mapper, fetch_all_fields, dont_json_loads_results)
    /\ UNCHANGED registered_tables

(* dynamo_to_dict(encoded, row_mapper) on the record dict_to_dynamo just returned *)
DecodeEncoded ==
    /\ op = "dict_to_dynamo"
    /\ result.ok
    /\ op' = "round_trip"
    /\ args' = [row_dict |-> args.row_dict, row_mapper |-> args.row_mapper,
                add_prefix |-> args.add_prefix, dynamo_row |-> result.val]
    /\ result' = DynamoToDict(result.val, args.row_mapper, FALSE, FALSE)
    /\ UNCHANGED registered_tables

(* The caller takes the outcome of a codec call; the codec keeps no state *)
Return ==
    /\ op \in {"dict_to_dynamo", "dynamo_to_dict", "round_trip"}
    /\ op' = "init"
    /\ args' = <<>>
    /\ result' = Ok(NoneV)
    /\ UNCHANGED registered_tables

NextRegistry ==
    \/ \E name \in TableNames, row_mapper \in TableMappers : DynamoTableInit(name, row_mapper)
    \/ \E table_name \in TableNames : GetRowMapperCall(table_name)

NextEncode ==
    \/ /\ op = "init"
       /\ \E row_dict \in RowDicts, row_mapper \in RowMappers, add_prefix \in Prefixes :
             DictToDynamoCall(row_dict, row_mapper, add_prefix)
    \/ DecodeEncoded
    \/ Return

NextDecode ==
    \/ /\ op = "init"
       /\ \E dynamo_row \in DynamoRows, row_mapper \in RowMappers,
             fetch_all_fields \in BOOLEAN, dont_json_loads_results \in BOOLEAN :
                DynamoToDictCall(dynamo_row, row_mapper, fetch_all_fields,
                                 dont_json_loads_results)
    \/ Return

Next == NextRegistry \/ NextEncode \/ NextDecode

Spec == Init /\ [][Next]_vars

(* The registry alone *)
SpecRegistry == Init /\ [][NextRegistry]_vars

(* The encoder, and the decoder applied to what it returned *)
SpecEncode == Init /\ [][NextEncode]_vars

(* The decoder on wire records *)
SpecDecode == Init /\ [][NextDecode]_vars

-----------------------------------------------------------------------------
(* Claims about the encoder, checked under SpecEncode *)

Encoded == op = "dict_to_dynamo"

(* The output key of a field of the encoder call in the state *)
OutKey(key) == PrefixOf(args.add_prefix) \o key

(* C1: the record dict_to_dynamo returns has no entry for a native field   *)
(* whose value is None, declared in the schema or not, and has an entry    *)
(* for every other field.                                                  *)
C1_NoneFieldsOmitted ==
    (Encoded /\ result.ok) =>
        \A key \in DOMAIN args.row_dict :
            (args.row_dict[key] = NoneV) <=> (OutKey(key) \notin DOMAIN result.val)

(* The nested record {f: {g: n}}, f declared M and g declared N, or f not declared *)
NestedCase ==
    /\ Encoded
    /\ args.add_prefix = NoneV
    /\ DOMAIN args.row_dict = {FieldF}
    /\ args.row_dict[FieldF].t = "dict"
    /\ DOMAIN args.row_dict[FieldF].v = {FieldG}
    /\ args.row_dict[FieldF].v[FieldG].t = "int"
    /\ \/ FieldF \notin DOMAIN args.row_mapper
       \/ /\ DOMAIN args.row_mapper = {FieldF, FieldG}
          /\ args.row_mapper[FieldF] = "M"
          /\ args.row_mapper[FieldG] = "N"

(* C2: dict_to_dynamo encodes the nested record {f: {g: n}} as             *)
(* {f: {M: ...}} without error, and dynamo_to_dict with the same schema    *)
(* returns {f: {g: n}} from it.                                            *)
C2_NestedRoundTrip ==
    NestedCase =>
        /\ result.ok
        /\ HasTag(result.val[FieldF], "M")
        /\ DynamoToDict(result.val, args.row_mapper, FALSE, FALSE) = Ok(args.row_dict)

(* C6, as claimed: every field declared in the schema and present with a   *)
(* non-None value is emitted once, under prefix+field with its declared    *)
(* tag, and not again by the unmapped pass; every output key is prefix+k   *)
(* for a key k of the native mapping.                                      *)
C6_SchemaPriority ==
    (Encoded /\ result.ok) =>
        /\ \A key \in SchemaFields(args.row_dict, args.row_mapper) :
              /\ OutKey(key) \in DOMAIN result.val
              /\ AttrTag(result.val[OutKey(key)]) = args.row_mapper[key]
              /\ key \notin UnmappedFields(args.row_dict, args.row_mapper,
                                           PrefixOf(args.add_prefix))
        /\ \A k \in DOMAIN result.val : \E key \in DOMAIN args.row_dict : k = OutKey(key)

(* C6, amended: in every record dict_to_dynamo returns, a field declared   *)
(* in the schema and present with a non-None value is emitted once, under  *)
(* prefix+field, as the schema pass encodes it: with its declared tag when *)
(* that is BOOL, N or S, and as the fallback serializer encodes the value  *)
(* when the declared tag is another one (none is declared M: that call     *)
(* fails).  The unmapped pass does not emit it again with an inferred tag, *)
(* and every output key is prefix+k for a key k of the native mapping.     *)
C6_SchemaPriorityAmended ==
    (Encoded /\ result.ok) =>
        /\ \A key \in (DOMAIN args.row_mapper) \cap (DOMAIN args.row_dict) :
              LET tag == args.row_mapper[key]
                  val == args.row_dict[key]
              IN  val # NoneV =>
                    /\ OutKey(key) \in DOMAIN result.val
                    /\ tag # "M"
                    /\ tag = "BOOL" =>
                          /\ to_bool(val).ok
                          /\ result.val[OutKey(key)] = Attr("BOOL", to_bool(val).val)
                    /\ tag \in {"N", "S"} => result.val[OutKey(key)] = Attr(tag, Str(val))
                    /\ tag \notin {"BOOL", "N", "S", "M"} =>
                          Ok(result.val[OutKey(key)]) = TypeSerialize(val)
        /\ \A k \in DOMAIN result.val : \E key \in DOMAIN args.row_dict : k = OutKey(key)

(* C6 witness: under prefix "p", f declared S holds "11" beside a field    *)
(* named "pf"; f is emitted as {S: "11"} under "pf", the other under "ppf" *)
C6_Witness ==
    /\ Encoded
    /\ result.ok
    /\ args.add_prefix = PyStr(PrefixP)
    /\ DOMAIN args.row_dict = {FieldF, FieldPF}
    /\ args.row_dict[FieldF] = PyStr(<<"1", "1">>)
    /\ args.row_mapper = (FieldF :> "S")
    /\ result.val[FieldPF] = Attr("S", <<"1", "1">>)
    /\ (PrefixP \o FieldPF) \in DOMAIN result.val

(* C7: a field not declared in the schema is encoded by its value: a       *)
(* boolean as BOOL, an integer, a float or a digit-only string as          *)
(* {N: str(value)}, any other string as S; a digit-only string on a field  *)
(* declared S stays {S: value}.                                            *)
C7_InferencePrecedence ==
    (Encoded /\ result.ok) =>
        \A key \in DOMAIN args.row_dict :
            LET val == args.row_dict[key]
                out == result.val[OutKey(key)]
                digits == val.t = "str" /\ Len(val.v) > 0
                            /\ \A i \in 1..Len(val.v) : val.v[i] \in DigitChars
            IN  /\ (key \notin DOMAIN args.row_mapper /\ val.t = "bool") =>
                      out = Attr("BOOL", val.v)
                /\ (key \notin DOMAIN args.row_mapper /\ val.t = "int") =>
                      out = Attr("N", IntToStr(val.v))
                /\ (key \notin DOMAIN args.row_mapper /\ val.t = "float") =>
                      out = Attr("N", FloatToStr(val.v))
                /\ (key \notin DOMAIN args.row_mapper /\ digits) => out = Attr("N", val.v)
                /\ (key \notin DOMAIN args.row_mapper /\ val.t = "str" /\ ~digits) =>
                      out = Attr("S", val.v)
                /\ (key \in DOMAIN args.row_mapper /\ args.row_mapper[key] = "S" /\ digits) =>
                      out = Attr("S", val.v)

(* C7 witness: undeclared True and "11" come out as BOOL and N *)
C7_Witness ==
    /\ Encoded
    /\ result.ok
    /\ args.row_mapper = EmptyDict
    /\ args.add_prefix = NoneV
    /\ args.row_dict = (FieldF :> PyBool(TRUE)) @@ (FieldG :> PyStr(<<"1", "1">>))
    /\ result.val = (FieldF :> Attr("BOOL", TRUE)) @@ (FieldG :> Attr("N", <<"1", "1">>))

(* The native mappings of C4: every field declared, a boolean under BOOL,  *)
(* an integer under N, or under S a string that is not '{...}'             *)
FlatTyped(row_dict, row_mapper) ==
    \A key \in DOMAIN row_dict :
        /\ key \in DOMAIN row_mapper
        /\ \/ row_mapper[key] = "BOOL" /\ row_dict[key].t = "bool"
           \/ row_mapper[key] = "N" /\ row_dict[key].t = "int"
           \/ /\ row_mapper[key] = "S"
              /\ row_dict[key].t = "str"
              /\ ~(StartsWith(row_dict[key].v, "{") /\ EndsWith(row_dict[key].v, "}"))

(* C4: for such a mapping x and schema S, dict_to_dynamo(x, S) returns a   *)
(* record and dynamo_to_dict of it with S is x.                            *)
C4_FlatRoundTrip ==
    /\ (Encoded /\ args.add_prefix = NoneV /\ FlatTyped(args.row_dict, args.row_mapper)) =>
          result.ok
    /\ (op = "round_trip" /\ args.add_prefix = NoneV
            /\ FlatTyped(args.row_dict, args.row_mapper)) =>
          result = Ok(args.row_dict)

(* C4 witness: {f: 0, g: ""} under {f: N, g: S} has made the round trip *)
C4_Witness ==
    /\ op = "round_trip"
    /\ args.add_prefix = NoneV
    /\ args.row_mapper = (FieldF :> "N") @@ (FieldG :> "S")
    /\ args.row_dict = (FieldF :> PyInt(0)) @@ (FieldG :> PyStr(<<>>))
    /\ args.dynamo_row = (FieldF :> Attr("N", <<"0">>)) @@ (FieldG :> Attr("S", <<>>))
    /\ result = Ok(args.row_dict)

-----------------------------------------------------------------------------
(* Claims about the decoder, checked under SpecDecode *)

Decoded == op = "dynamo_to_dict"

(* What C3 describes: every field of the record decoded under schema[field] *)
(* when declared and under its wire tag otherwise, nested records included  *)
RECURSIVE C3_ClaimedDecode(_, _, _)
C3_ClaimedDecode(row, row_mapper, dont) ==
    LET each == [key \in {k \in DOMAIN row : row[k] # EmptyAttr} |->
                    LET tag == IF key \in DOMAIN row_mapper THEN row_mapper[key]
                               ELSE AttrTag(row[key])
                    IN  IF tag \in {"N", "M", "S"} /\ ~HasTag(row[key], tag)
                        THEN CallFailed
                        ELSE IF tag = "N" THEN DecodeNumber(AttrPayload(row[key]))
                        ELSE IF tag = "S" THEN DecodeString(AttrPayload(row[key]), dont)
                        ELSE IF tag = "M"
                        THEN LET nested == C3_ClaimedDecode(AttrPayload(row[key]), row_mapper, dont)
                             IN  IF nested.ok THEN Ok(PyDict(nested.val)) ELSE nested
                        ELSE TypeDeserialize(row[key])]
    IN  IF \E key \in DOMAIN each : ~each[key].ok
        THEN CallFailed
        ELSE Ok([key \in DOMAIN each |-> each[key].val])

(* C3, as claimed: dynamo_to_dict decodes every field of the wire record,  *)
(* at the top level and inside nested M records, under schema[field] when  *)
(* the schema declares it and under its wire tag otherwise; an undeclared  *)
(* field still appears in the result.                                      *)
C3_TagResolution ==
    (Decoded /\ result.ok) =>
        result = C3_ClaimedDecode(args.dynamo_row, args.row_mapper,
                                  args.dont_json_loads_results)

(* C3, amended: in schema-only mode the result holds exactly the fields    *)
(* the schema declares that carry a non-empty wire value, each read under  *)
(* schema[field] (N, S and M only from a wire value with that same tag,    *)
(* any other declared tag through the deserializer of the wire tag), and   *)
(* an undeclared field is left out.  In all-fields mode, and inside nested *)
(* M records in either mode, every field with a non-empty wire value is    *)
(* decoded under the tag on the wire, declared or not: the schema plays no *)
(* part.                                                                   *)
C3_TagResolutionAmended ==
    (Decoded /\ result.ok) =>
        LET row == args.dynamo_row
            dont == args.dont_json_loads_results
            byWire == DynamoToDict(row, EmptyDict, TRUE, dont)
        IN  IF args.fetch_all_fields
            THEN /\ result = byWire
                 /\ DOMAIN result.val = {key \in DOMAIN row : row[key] # EmptyAttr}
                 /\ \A key \in DOMAIN result.val :
                       /\ HasTag(row[key], "N") =>
                             Ok(result.val[key]) = DecodeNumber(AttrPayload(row[key]))
                       /\ HasTag(row[key], "BOOL") =>
                             result.val[key] = PyBool(AttrPayload(row[key]))
            ELSE /\ DOMAIN result.val =
                       {key \in DOMAIN args.row_mapper :
                           key \in DOMAIN row /\ row[key] # EmptyAttr}
                 /\ \A key \in DOMAIN result.val :
                       LET tag == args.row_mapper[key]
                           alone == DynamoToDict(key :> row[key], EmptyDict, TRUE, dont)
                       IN  IF tag \in {"N", "S", "M"}
                           THEN /\ HasTag(row[key], tag)
                                /\ alone.ok
                                /\ key \in DOMAIN alone.val
                                /\ result.val[key] = alone.val[key]
                           ELSE Ok(result.val[key]) = TypeDeserialize(row[key])

(* C3 witness: schema-only mode, f declared N and g undeclared: only f is  *)
(* in the result                                                           *)
C3_Witness ==
    /\ Decoded
    /\ ~args.fetch_all_fields
    /\ args.row_mapper = (FieldF :> "N")
    /\ args.dynamo_row = (FieldF :> Attr("N", <<"1">>)) @@ (FieldG :> Attr("S", <<"a">>))
    /\ result = Ok(FieldF :> PyInt(1))

(* C8: with dont_json_loads_results set, every S field dynamo_to_dict      *)
(* decodes, S fields of nested M records included, comes back as its raw   *)
(* string; without it, an S value that is '{...}' and valid JSON comes     *)
(* back as the parsed record.                                              *)
C8_JsonSuppression ==
    (Decoded /\ result.ok) =>
        \A key \in DOMAIN result.val :
            LET attr == args.dynamo_row[key]
                val == AttrPayload(attr)
            IN  /\ (args.dont_json_loads_results /\ HasTag(attr, "S")) =>
                      result.val[key] = PyStr(val)
                /\ (args.dont_json_loads_results /\ HasTag(attr, "M")) =>
                      \A g \in DOMAIN val :
                          HasTag(val[g], "S") =>
                              result.val[key].v[g] = PyStr(AttrPayload(val[g]))
                /\ ( /\ ~args.dont_json_loads_results
                     /\ HasTag(attr, "S")
                     /\ args.fetch_all_fields \/ args.row_mapper[key] = "S"
                     /\ StartsWith(val, "{") /\ EndsWith(val, "}")
                     /\ JsonLoads(val).ok ) =>
                      result.val[key] = JsonLoads(val).val

(* An S payload that looks like JSON and is not *)
MalformedJson(attr) ==
    /\ HasTag(attr, "S")
    /\ StartsWith(AttrPayload(attr), "{")
    /\ EndsWith(AttrPayload(attr), "}")
    /\ ~JsonLoads(AttrPayload(attr)).ok

PlainAttr == Attr("S", <<"a">>)

C10_SchemaModePayload ==
    (Decoded /\ ~args.fetch_all_fields) =>
        LET row == args.dynamo_row
            present == {key \in DOMAIN args.row_mapper :
                           key \in DOMAIN row /\ row[key] # EmptyAttr}
        IN  /\ (\E key \in present :
                   /\ args.row_mapper[key] \in {"N", "S", "M"}
                   /\ ~HasTag(row[key], args.row_mapper[key])) => ~result.ok
            /\ result.ok =>
                  /\ \A key \in present :
                        args.row_mapper[key] \notin {"N", "S", "M"} =>
                            /\ key \in DOMAIN result.val
                            /\ Ok(result.val[key]) = TypeDeserialize(row[key])
                            /\ HasTag(row[key], "N") =>
                                  result.val[key] = PyDecimal(AttrPayload(row[key]))
                  /\ \A key \in (DOMAIN args.row_mapper) \ present :
                        key \notin DOMAIN result.val

(* C10 witness: f declared N arrives tagged S, and the call has failed *)
C10_Witness ==
    /\ Decoded
    /\ ~args.fetch_all_fields
    /\ args.row_mapper = (FieldF :> "N")
    /\ args.dynamo_row = (FieldF :> Attr("S", <<"1">>))
    /\ ~result.ok

-----------------------------------------------------------------------------
(* Claims about the registry, checked under SpecRegistry *)

(* C5: get_row_mapper(name) returns, for a registered name, the row_mapper *)
(* given at the latest DynamoTable(name, ...), and for a name never        *)
(* registered fails with a 'not registered' error; the registry is left    *)
(* as it was.                                                              *)
C5_RegistryLookup ==
    op = "get_row_mapper" =>
        IF args.table_name \in DOMAIN registered_tables
        THEN result = Ok(registered_tables[args.table_name].v.row_mapper)
        ELSE result = Raised("TableNotRegisteredException")

=============================================================================
